---- MODULE Spec2Model ----
(***************************************************************************)
(* BOM Platform API (backend/main.py): the FastAPI request handlers, the   *)
(* workflow orchestrator they drive and the knowledge-base store they      *)
(* mutate.                                                                 *)
(*                                                                         *)
(* Every handler of main.py is an `async def` whose body holds no await:   *)
(* it runs to completion on the event loop, so one handler is one action.  *)
(* The pipeline started by start_workflow runs in the background and is    *)
(* interleaved with the handlers one stage boundary at a time.             *)
(*                                                                         *)
(* WorkflowService and KnowledgeBaseService are imported by main.py        *)
(* (lines 13-14); their operators below follow the written specification   *)
(* of the orchestrator and of the store.                                   *)
(***************************************************************************)
EXTENDS Integers, Sequences, FiniteSets, TLC

\* Bounds of the model.
MaxWorkflows == 2       \* uuids drawn by the upload handlers
MaxItems == 2           \* knowledge-base items ever created
MaxIds == 2             \* length of an approve/reject id list
MaxFiles == 2           \* files a cloud download yields
MaxLiveWorkflows == 1   \* uuids drawn in the specification with fairness

VARIABLES
    workflows,      \* WorkflowService: workflow id -> Workflow record
    pipe,           \* background pipeline of each started workflow: its position
    nextId,         \* number of uuids drawn so far, plus one
    deleted,        \* history: ids removed by a successful delete_workflow
    submitted,      \* history: id -> the payload of its last accepted updateResults
    resultsDir,     \* results_dir: the workflow ids that own a stored match result set
    calls,          \* history: the start_workflow calls of the latest exchange that returned
    kb,             \* KnowledgeBaseService: item id -> approval status
    nextItem,       \* next knowledge-base item id
    countSum,       \* history: sum of the counts answered by approve and reject
    decided,        \* history: items whose status left "pending"
    http,           \* the latest HTTP exchange: the request and its response
    served          \* parity of the number of HTTP exchanges served

vars == <<workflows, pipe, nextId, deleted, submitted, resultsDir, calls,
          kb, nextItem, countSum, decided, http, served>>

wfVars == <<workflows, pipe, nextId, deleted, submitted, resultsDir>>
kbVars == <<kb, nextItem, countSum, decided>>

-----------------------------------------------------------------------------
\* Values

WorkflowIds == 1..MaxWorkflows
ItemIds == 1..MaxItems

PipelineStates == {"CREATED", "EXTRACTING", "MATCHING"}
ReviewStates == {"AWAITING_REVIEW", "COMPLETED"}
Statuses == PipelineStates \cup ReviewStates \cup {"FAILED"}

ComparisonModes == {"full", "kb_only"}

\* The result sets a client may submit (UpdateResultsRequest).
Submissions ==
    {[matches |-> <<>>, summary |-> "s1"],
     [matches |-> <<"m1">>, summary |-> "s2"],
     [matches |-> <<"m2", "m1">>, summary |-> "s1"]}

\* No result set stored / nothing submitted yet.
NoResults == [matches |-> <<>>, summary |-> "none"]

\* The result set the matcher produces for a workflow.
MatcherResults == [matches |-> <<"m1", "m2">>, summary |-> "s0"]

Range(s) == {s[i] : i \in 1..Len(s)}

SeqsUpTo(S, n) == UNION {[1..k -> S] : k \in 0..n}

\* A raised exception / a returned value of a service call.
Raise(exc) == [raised |-> TRUE, exc |-> exc]
Return(v) == [raised |-> FALSE, value |-> v]

-----------------------------------------------------------------------------
\* HTTP exchanges

NoExchange ==
    [op |-> "none", code |-> 0, workflow_id |-> 0, item_master |-> FALSE,
     mode |-> "none", item_ids |-> <<>>, count |-> 0, workflow_ids |-> <<>>,
     files |-> 0]

Exchange(op, code) == [NoExchange EXCEPT !.op = op, !.code = code]

JSONResponse(content) == [code |-> 200, content |-> content]

HTTPException(status_code, detail) == [code |-> status_code, detail |-> detail]

-----------------------------------------------------------------------------
\* WorkflowService (services/workflow_service.py)

NewWorkflow(comparison_mode) ==
    [status |-> "CREATED", mode |-> comparison_mode, results |-> NoResults,
     error |-> "none"]

\* start_workflow on the state st = [workflows, pipe]: validates the mode, stores
\* the document, creates the Workflow record in CREATED and queues its pipeline;
\* it does not wait for the pipeline.
WorkflowService_start_workflow(st, workflow_id, item_master, comparison_mode, storable) ==
    IF comparison_mode = "full" /\ ~item_master
    THEN [raised |-> TRUE, exc |-> "ValidationError",
          workflows |-> st.workflows, pipe |-> st.pipe]
    ELSE IF ~storable
    THEN [raised |-> TRUE, exc |-> "IOError",
          workflows |-> st.workflows, pipe |-> st.pipe]
    ELSE [raised |-> FALSE, exc |-> "none",
          workflows |-> (workflow_id :> NewWorkflow(comparison_mode)) @@ st.workflows,
          pipe |-> (workflow_id :> "queued") @@ st.pipe]

WorkflowService_get_workflow_status(workflow_id) ==
    IF workflow_id \in DOMAIN workflows
    THEN Return([status |-> workflows[workflow_id].status,
                 error |-> workflows[workflow_id].error])
    ELSE Raise("NotFoundError")

WorkflowService_get_workflow_results(workflow_id) ==
    IF workflow_id \notin DOMAIN workflows
    THEN Raise("NotFoundError")
    ELSE LET wf == workflows[workflow_id] IN
         IF wf.status \in ReviewStates
         THEN Return([kind |-> "results", matches |-> wf.results.matches,
                      summary |-> wf.results.summary, error |-> "none"])
         ELSE IF wf.status = "FAILED"
         THEN Return([kind |-> "failed", matches |-> <<>>, summary |-> "none",
                      error |-> wf.error])
         ELSE Raise("NotFoundError")

WorkflowService_update_workflow_results(workflow_id, data) ==
    IF workflow_id \notin DOMAIN workflows
    THEN [raised |-> TRUE, exc |-> "NotFoundError", workflows |-> workflows]
    ELSE IF workflows[workflow_id].status \notin ReviewStates
    THEN [raised |-> TRUE, exc |-> "ConflictError", workflows |-> workflows]
    ELSE [raised |-> FALSE, exc |-> "none",
          workflows |-> [workflows EXCEPT
                           ![workflow_id].status = "COMPLETED",
                           ![workflow_id].results =
                               [matches |-> data.matches, summary |-> data.summary]]]

\* delete_workflow removes the record and, in cascade, its stored match results.
delete_workflow_no_cascade(workflow_id) ==
    IF workflow_id \notin DOMAIN workflows
    THEN [raised |-> TRUE, exc |-> "NotFoundError", workflows |-> workflows,
          results_dir |-> resultsDir]
    ELSE [raised |-> FALSE, exc |-> "none",
          workflows |-> [w \in DOMAIN workflows \ {workflow_id} |-> workflows[w]],
          results_dir |-> resultsDir]

WorkflowService_delete_workflow(workflow_id) ==
    IF workflow_id \notin DOMAIN workflows
    THEN [raised |-> TRUE, exc |-> "NotFoundError", workflows |-> workflows,
          results_dir |-> resultsDir]
    ELSE [raised |-> FALSE, exc |-> "none",
          workflows |-> [w \in DOMAIN workflows \ {workflow_id} |-> workflows[w]],
          results_dir |-> resultsDir \ {workflow_id}]

\* A stage's persistence write: a no-op once the workflow is gone.
StageWrite(w, to_pipe, status, results, error) ==
    IF w \in DOMAIN workflows
    THEN /\ workflows' = [workflows EXCEPT ![w].status = status,
                                           ![w].results = results,
                                           ![w].error = error]
         /\ pipe' = [pipe EXCEPT ![w] = to_pipe]
         /\ resultsDir' = IF results = NoResults
                          THEN resultsDir
                          ELSE resultsDir \cup {w}
    ELSE /\ workflows' = workflows
         /\ pipe' = [pipe EXCEPT ![w] = "dropped"]
         /\ resultsDir' = resultsDir

PipelineFrame ==
    /\ http' = http
    /\ served' = served
    /\ calls' = calls
    /\ UNCHANGED <<nextId, deleted, submitted>>
    /\ UNCHANGED kbVars

\* CREATED -> EXTRACTING
PipelineStart(w) ==
    /\ w \in DOMAIN pipe
    /\ pipe[w] = "queued"
    /\ StageWrite(w, "extracting", "EXTRACTING", NoResults, "none")
    /\ PipelineFrame

\* EXTRACTING -> MATCHING
ExtractionDone(w) ==
    /\ w \in DOMAIN pipe
    /\ pipe[w] = "extracting"
    /\ StageWrite(w, "matching", "MATCHING", NoResults, "none")
    /\ PipelineFrame

\* EXTRACTING -> FAILED
ExtractionFailed(w) ==
    /\ w \in DOMAIN pipe
    /\ pipe[w] = "extracting"
    /\ StageWrite(w, "halted", "FAILED", NoResults, "ExtractionError")
    /\ PipelineFrame

\* MATCHING -> AWAITING_REVIEW
MatchingDoneCompletes(w) ==
    /\ w \in DOMAIN pipe
    /\ pipe[w] = "matching"
    /\ StageWrite(w, "finished", "COMPLETED", MatcherResults, "none")
    /\ PipelineFrame

MatchingDone(w) ==
    /\ w \in DOMAIN pipe
    /\ pipe[w] = "matching"
    /\ StageWrite(w, "finished", "AWAITING_REVIEW", MatcherResults, "none")
    /\ PipelineFrame

\* MATCHING -> FAILED
MatchingFailed(w) ==
    /\ w \in DOMAIN pipe
    /\ pipe[w] = "matching"
    /\ StageWrite(w, "halted", "FAILED", NoResults, "MatchingError")
    /\ PipelineFrame

-----------------------------------------------------------------------------
\* KnowledgeBaseService (services/knowledge_base_service.py)

\* The bulk transition of approve_items / reject_items: the listed items that are
\* pending take the status `to`, in list order; the others are skipped. Yields the
\* new store and the number of items transitioned.
RECURSIVE TransitionItems(_, _, _, _)
TransitionItems(store, item_ids, to, n) ==
    IF item_ids = <<>>
    THEN [store |-> store, count |-> n]
    ELSE LET i == Head(item_ids) IN
         IF i \in DOMAIN store /\ store[i] = "pending"
         THEN TransitionItems([store EXCEPT ![i] = to], Tail(item_ids), to, n + 1)
         ELSE TransitionItems(store, Tail(item_ids), to, n)

KnowledgeBaseService_approve_items(item_ids) ==
    TransitionItems(kb, item_ids, "approved", 0)

reject_items_any_status(item_ids) ==
    [store |-> [i \in DOMAIN kb |->
                    IF i \in Range(item_ids) THEN "rejected" ELSE kb[i]],
     count |-> Cardinality(Range(item_ids) \cap DOMAIN kb)]

KnowledgeBaseService_reject_items(item_ids) ==
    TransitionItems(kb, item_ids, "rejected", 0)

KnowledgeBaseService_delete_item(item_id) ==
    IF item_id \notin DOMAIN kb
    THEN [raised |-> TRUE, exc |-> "NotFoundError", store |-> kb]
    ELSE [raised |-> FALSE, exc |-> "none",
          store |-> [i \in DOMAIN kb \ {item_id} |-> kb[i]]]

\* get_items: the stored items among `matching` (the items the search term
\* matches; "" matches every item), the `limit` latest of them.
KnowledgeBaseService_get_items(matching, limit) ==
    LET found == matching \cap DOMAIN kb IN
    {i \in found : Cardinality({j \in found : j > i}) < limit}

KnowledgeBaseService_get_stats ==
    [total |-> Cardinality(DOMAIN kb),
     pending |-> Cardinality({i \in DOMAIN kb : kb[i] = "pending"}),
     approved |-> Cardinality({i \in DOMAIN kb : kb[i] = "approved"}),
     rejected |-> Cardinality({i \in DOMAIN kb : kb[i] = "rejected"})]

KnowledgeBaseService_get_pending_approvals ==
    {i \in DOMAIN kb : kb[i] = "pending"}

\* The items that leave "pending" between the store `old` and the store `new`.
LeftPending(old, new) ==
    {i \in DOMAIN old \cap DOMAIN new : old[i] = "pending" /\ new[i] # "pending"}

\* A new item enters the store as pending (from a workflow or seeded).
CreateItem ==
    /\ nextItem <= MaxItems
    /\ kb' = (nextItem :> "pending") @@ kb
    /\ nextItem' = nextItem + 1
    /\ UNCHANGED <<countSum, decided, http, served, calls>>
    /\ UNCHANGED wfVars

-----------------------------------------------------------------------------
\* Request handlers (backend/main.py)

Served == served' = 1 - served

\* uuid.uuid4(): the k-th identifier drawn by the running handler, k from 0.
Uuid4Reused(k) ==
    IF DOMAIN workflows = {} THEN nextId + k ELSE CHOOSE w \in DOMAIN workflows : TRUE

Uuid4Hoisted(k) == nextId

Uuid4(k) == nextId + k

\* GET /api/autonomous/workflow/{workflow_id}/status
get_workflow_status_any500(workflow_id) ==
    LET status == WorkflowService_get_workflow_status(workflow_id) IN
    IF status.raised
    THEN HTTPException(500, status.exc)
    ELSE JSONResponse(status.value)

get_workflow_status_no_error(workflow_id) ==
    LET status == WorkflowService_get_workflow_status(workflow_id) IN
    IF status.raised
    THEN HTTPException(404, status.exc)
    ELSE JSONResponse([status |-> status.value.status, error |-> "none"])

get_workflow_status(workflow_id) ==
    LET status == WorkflowService_get_workflow_status(workflow_id) IN
    IF status.raised
    THEN HTTPException(404, status.exc)
    ELSE JSONResponse(status.value)

\* GET /api/autonomous/workflow/{workflow_id}/results
get_workflow_results_empty(workflow_id) ==
    LET results == WorkflowService_get_workflow_results(workflow_id) IN
    IF results.raised
    THEN JSONResponse([kind |-> "results", matches |-> <<>>, summary |-> "none",
                       error |-> "none"])
    ELSE JSONResponse(results.value)

get_workflow_results(workflow_id) ==
    LET results == WorkflowService_get_workflow_results(workflow_id) IN
    IF results.raised
    THEN HTTPException(404, results.exc)
    ELSE JSONResponse(results.value)

\* UpdateResultsRequest.dict()
RequestDictNoSummary(matches, summary) ==
    [matches |-> matches, summary |-> "none"]

RequestDict(matches, summary) ==
    [matches |-> matches, summary |-> summary]

\* A start_workflow call: the file it is for (0: the uploaded document, k: the
\* k-th downloaded file) and its arguments.
StartCall(file, workflow_id, item_master, comparison_mode) ==
    [file |-> file, workflow_id |-> workflow_id, item_master |-> item_master,
     mode |-> comparison_mode]

\* The check of line 177: full comparison mode without an item master.
ItemMasterNeverMissing(item_master, comparison_mode) == FALSE

ItemMasterMissing(item_master, comparison_mode) ==
    comparison_mode = "full" /\ ~item_master

\* The response of upload_documents once start_workflow has returned or raised.
UploadResponseAlwaysOk(req, r, workflow_id) ==
    [req EXCEPT !.code = 200, !.workflow_id = workflow_id]

UploadResponse(req, r, workflow_id) ==
    IF r.raised
    THEN [req EXCEPT !.code = 500]
    ELSE [req EXCEPT !.code = 200, !.workflow_id = workflow_id]

\* POST /api/autonomous/upload. wi_document is a required File(...): a request
\* without it never reaches the handler.
upload_documents(item_master, comparison_mode, storable) ==
    LET req == [Exchange("upload", 0) EXCEPT !.item_master = item_master,
                                             !.mode = comparison_mode] IN
    /\ Served
    /\ UNCHANGED kbVars
    /\ UNCHANGED <<deleted, submitted, resultsDir>>
    /\ IF ItemMasterMissing(item_master, comparison_mode)
       THEN /\ http' = [req EXCEPT !.code = 400]
            /\ calls' = <<>>
            /\ UNCHANGED <<workflows, pipe, nextId>>
       ELSE /\ nextId <= MaxWorkflows
            /\ LET workflow_id == Uuid4(0)
                   r == WorkflowService_start_workflow(
                            [workflows |-> workflows, pipe |-> pipe],
                            workflow_id, item_master, comparison_mode, storable)
               IN /\ nextId' = nextId + 1
                  /\ workflows' = r.workflows
                  /\ pipe' = r.pipe
                  /\ http' = UploadResponse(req, r, workflow_id)
                  /\ calls' = IF r.raised
                              THEN <<>>
                              ELSE <<StartCall(0, workflow_id, item_master,
                                               comparison_mode)>>

\* The loop of upload_from_url over files k..n; file fail_at cannot be opened or
\* started (0: none fails).
RECURSIVE BatchLoop(_, _, _, _)
BatchLoop(st, k, n, fail_at) ==
    IF k > n
    THEN st
    ELSE LET workflow_id == Uuid4(k - 1)
             r == WorkflowService_start_workflow(
                      [workflows |-> st.workflows, pipe |-> st.pipe],
                      workflow_id, FALSE, "kb_only", k # fail_at)
         IN IF r.raised
            THEN [st EXCEPT !.raised = TRUE, !.drawn = k]
            ELSE BatchLoop([raised |-> FALSE, workflows |-> r.workflows,
                            pipe |-> r.pipe,
                            workflow_ids |-> Append(st.workflow_ids, workflow_id),
                            calls |-> Append(st.calls,
                                             StartCall(k, workflow_id, FALSE,
                                                       "kb_only")),
                            drawn |-> k],
                           k + 1, n, fail_at)

\* POST /api/autonomous/upload_from_url, the download yielding n files.
upload_from_url(n, fail_at) ==
    LET req == [Exchange("upload_from_url", 0) EXCEPT !.files = n] IN
    /\ Served
    /\ UNCHANGED kbVars
    /\ UNCHANGED <<deleted, submitted, resultsDir>>
    /\ IF n = 0
       THEN \* HTTPException(400) raised inside the try, caught by `except Exception`
            /\ http' = [req EXCEPT !.code = 500]
            /\ calls' = <<>>
            /\ UNCHANGED <<workflows, pipe, nextId>>
       ELSE /\ nextId + (IF fail_at = 0 THEN n ELSE fail_at) - 1 <= MaxWorkflows
            /\ LET r == BatchLoop([raised |-> FALSE, workflows |-> workflows,
                                   pipe |-> pipe, workflow_ids |-> <<>>,
                                   calls |-> <<>>, drawn |-> 0],
                                  1, n, fail_at)
               IN /\ nextId' = nextId + r.drawn
                  /\ workflows' = r.workflows
                  /\ pipe' = r.pipe
                  /\ calls' = r.calls
                  /\ http' = IF r.raised
                             THEN [req EXCEPT !.code = 500]
                             ELSE [req EXCEPT !.code = 200,
                                              !.workflow_ids = r.workflow_ids]

\* DELETE /api/workflows/{workflow_id}
delete_workflow(workflow_id) ==
    LET r == WorkflowService_delete_workflow(workflow_id) IN
    /\ Served
    /\ UNCHANGED kbVars
    /\ UNCHANGED <<pipe, nextId, submitted>>
    /\ calls' = <<>>
    /\ workflows' = r.workflows
    /\ resultsDir' = r.results_dir
    /\ deleted' = IF r.raised THEN deleted ELSE deleted \cup {workflow_id}
    /\ http' = [Exchange("delete_workflow", IF r.raised THEN 500 ELSE 200)
                    EXCEPT !.workflow_id = workflow_id]

\* POST /api/autonomous/workflow/{workflow_id}/results
update_workflow_results(workflow_id, matches, summary) ==
    LET r == WorkflowService_update_workflow_results(
                 workflow_id, RequestDict(matches, summary)) IN
    /\ Served
    /\ UNCHANGED kbVars
    /\ UNCHANGED <<pipe, nextId, deleted, resultsDir>>
    /\ calls' = <<>>
    /\ workflows' = r.workflows
    /\ submitted' = IF r.raised
                    THEN submitted
                    ELSE [submitted EXCEPT ![workflow_id] =
                              [matches |-> matches, summary |-> summary]]
    /\ http' = [Exchange("update_results", IF r.raised THEN 500 ELSE 200)
                    EXCEPT !.workflow_id = workflow_id]

\* GET /api/workflows
get_workflows ==
    JSONResponse([success |-> TRUE, workflows |-> DOMAIN workflows])

\* GET /api/knowledge-base
get_knowledge_base_counts_items(matching, limit) ==
    LET items == KnowledgeBaseService_get_items(matching, limit)
        stats == KnowledgeBaseService_get_stats
    IN JSONResponse([success |-> TRUE, items |-> items,
                     stats |-> [stats EXCEPT !.total = Cardinality(items)]])

get_knowledge_base(matching, limit) ==
    LET items == KnowledgeBaseService_get_items(matching, limit)
        stats == KnowledgeBaseService_get_stats
    IN JSONResponse([success |-> TRUE, items |-> items, stats |-> stats])

\* GET /api/knowledge-base/pending
get_pending_approvals ==
    JSONResponse([success |-> TRUE,
                  pending_items |-> KnowledgeBaseService_get_pending_approvals])

\* The body shared by the approve and the reject handler: the store takes the
\* service's result and the response carries the service's count.
ItemDecision(op, result, item_ids) ==
    /\ Served
    /\ UNCHANGED wfVars
    /\ calls' = <<>>
    /\ nextItem' = nextItem
    /\ kb' = result.store
    /\ countSum' = countSum + result.count
    /\ decided' = decided \cup LeftPending(kb, result.store)
    /\ http' = [Exchange(op, 200) EXCEPT !.item_ids = item_ids,
                                         !.count = result.count]

\* POST /api/knowledge-base/approve
approve_counts_request(item_ids) ==
    ItemDecision("approve",
                 [KnowledgeBaseService_approve_items(item_ids)
                      EXCEPT !.count = Len(item_ids)],
                 item_ids)

approve_knowledge_base_item(item_ids) ==
    ItemDecision("approve", KnowledgeBaseService_approve_items(item_ids), item_ids)

\* POST /api/knowledge-base/reject
reject_calls_approve(item_ids) ==
    ItemDecision("reject", KnowledgeBaseService_approve_items(item_ids), item_ids)

reject_knowledge_base_item(item_ids) ==
    ItemDecision("reject", KnowledgeBaseService_reject_items(item_ids), item_ids)

\* DELETE /api/knowledge-base/{item_id}
delete_knowledge_base_item(item_id) ==
    LET r == KnowledgeBaseService_delete_item(item_id) IN
    /\ Served
    /\ UNCHANGED wfVars
    /\ calls' = <<>>
    /\ UNCHANGED <<nextItem, countSum, decided>>
    /\ kb' = r.store
    /\ http' = [Exchange("delete_item", IF r.raised THEN 500 ELSE 200)
                    EXCEPT !.item_ids = <<item_id>>]

-----------------------------------------------------------------------------
\* Specifications

Init ==
    /\ workflows = <<>>
    /\ pipe = <<>>
    /\ nextId = 1
    /\ deleted = {}
    /\ submitted = [w \in WorkflowIds |-> NoResults]
    /\ resultsDir = {}
    /\ calls = <<>>
    /\ kb = <<>>
    /\ nextItem = 1
    /\ countSum = 0
    /\ decided = {}
    /\ http = NoExchange
    /\ served = 0

\* The orchestrator: the workflow handlers and the background pipelines.
Next ==
    \/ \E im \in BOOLEAN, mode \in ComparisonModes, storable \in BOOLEAN :
           upload_documents(im, mode, storable)
    \/ \E n \in 0..MaxFiles : \E fail_at \in 0..n : upload_from_url(n, fail_at)
    \/ \E w \in WorkflowIds : delete_workflow(w)
    \/ \E w \in WorkflowIds, d \in Submissions :
           update_workflow_results(w, d.matches, d.summary)
    \/ \E w \in WorkflowIds : PipelineStart(w)
    \/ \E w \in WorkflowIds : ExtractionDone(w)
    \/ \E w \in WorkflowIds : ExtractionFailed(w)
    \/ \E w \in WorkflowIds : MatchingDone(w)
    \/ \E w \in WorkflowIds : MatchingFailed(w)

Spec == Init /\ [][Next]_vars

\* The knowledge-base store: its handlers and the arrival of new items.
NextKB ==
    \/ CreateItem
    \/ \E ids \in SeqsUpTo(ItemIds, MaxIds) : approve_knowledge_base_item(ids)
    \/ \E ids \in SeqsUpTo(ItemIds, MaxIds) : reject_knowledge_base_item(ids)
    \/ \E i \in ItemIds : delete_knowledge_base_item(i)

SpecKB == Init /\ [][NextKB]_vars

-----------------------------------------------------------------------------
\* Properties of the orchestrator (checked under Spec)

\* The status a poll of GET .../status reads for w, "absent" on a 404.
PolledStatus(w) ==
    LET r == get_workflow_status(w) IN
    IF r.code = 200 THEN r.content.status ELSE "absent"

Forward ==
    {<<"CREATED", "EXTRACTING">>, <<"EXTRACTING", "MATCHING">>,
     <<"MATCHING", "AWAITING_REVIEW">>, <<"AWAITING_REVIEW", "COMPLETED">>}
    \cup {<<s, "FAILED">> : s \in PipelineStates \cup {"AWAITING_REVIEW"}}

\* C1: between two consecutive states the status polled for a workflow either
\* stays, or takes one step of CREATED -> EXTRACTING -> MATCHING ->
\* AWAITING_REVIEW -> COMPLETED, or enters FAILED from a non-terminal state; a
\* workflow appears in CREATED under an id never issued before, and a deleted id
\* stays absent.
C1_StatusMovesForward ==
    [][\A w \in WorkflowIds :
         LET before == PolledStatus(w)
             after == PolledStatus(w)'
         IN /\ (before # "absent" /\ after # "absent" /\ after # before)
                   => <<before, after>> \in Forward
            /\ (before = "absent" /\ after # "absent")
                   => (after = "CREATED" /\ w >= nextId)]_vars

C1_Witness ==
    /\ \E w \in DOMAIN workflows : workflows[w].status = "COMPLETED"
    /\ \E w \in DOMAIN workflows : workflows[w].status = "FAILED"

\* C2: once a workflow is deleted, status and results polls of its id answer 404
\* and its record is never there again, also after the stage that was in flight
\* at the delete has completed.
C2_DeletedStaysDeleted ==
    \A w \in deleted :
        /\ w \notin DOMAIN workflows
        /\ get_workflow_status(w).code = 404
        /\ get_workflow_results(w).code = 404

C2_Witness ==
    \E w \in deleted : pipe[w] = "dropped"

\* C3: an upload in mode full without an item master is answered 400, draws no
\* workflow id and leaves the workflows and the pipelines as they were.
C3_FullWithoutItemMasterRejected ==
    [][(served' # served /\ http'.op = "upload"
            /\ http'.mode = "full" /\ ~http'.item_master)
          => /\ http'.code = 400
             /\ http'.workflow_id = 0
             /\ nextId' = nextId
             /\ workflows' = workflows
             /\ pipe' = pipe]_vars

C3_Witness ==
    /\ http.op = "upload"
    /\ http.mode = "full"
    /\ ~http.item_master
    /\ http.code = 400

\* C4: while the latest exchange is an upload answered with a workflow id, that
\* workflow exists and a status poll of it answers 200, wherever its pipeline is.
C4_ReturnedIdIsQueryable ==
    (http.op = "upload" /\ http.code = 200)
        => /\ http.workflow_id \in DOMAIN workflows
           /\ get_workflow_status(http.workflow_id).code = 200

C4_Witness ==
    /\ http.op = "upload"
    /\ http.code = 200
    /\ http.workflow_id \in DOMAIN workflows
    /\ workflows[http.workflow_id].status \in {"CREATED", "EXTRACTING"}
    /\ pipe[http.workflow_id] \in {"queued", "extracting"}

\* C8: a results poll answers 404 in CREATED, EXTRACTING and MATCHING, the failed
\* indicator in FAILED, and the stored matches and summary in AWAITING_REVIEW and
\* COMPLETED; a matches/summary payload is answered in no other state.
C8_ResultsOnlyWhenReviewable ==
    \A w \in WorkflowIds :
        LET r == get_workflow_results(w) IN
        /\ (w \in DOMAIN workflows /\ workflows[w].status \in PipelineStates)
               => r.code = 404
        /\ (w \in DOMAIN workflows /\ workflows[w].status = "FAILED")
               => (r.code = 200 /\ r.content.kind = "failed")
        /\ (w \in DOMAIN workflows /\ workflows[w].status \in ReviewStates)
               => (r.code = 200 /\ r.content.kind = "results")
        /\ (r.code = 200 /\ r.content.kind = "results")
               => (w \in DOMAIN workflows /\ workflows[w].status \in ReviewStates)

C8_Witness ==
    /\ \E w \in DOMAIN workflows : workflows[w].status = "MATCHING"
    /\ \E w \in DOMAIN workflows : workflows[w].status = "FAILED"

\* C9 (the claim as stated): an updateResults on a workflow that is not in
\* AWAITING_REVIEW or COMPLETED is answered with a client-side rejection (a 4xx
\* code, 409 Conflict among them) and leaves the workflows unchanged.
C9_UpdateRejectedAsConflict ==
    [][(/\ served' # served
        /\ http'.op = "update_results"
        /\ http'.workflow_id \in DOMAIN workflows
        /\ workflows[http'.workflow_id].status \notin ReviewStates)
          => /\ http'.code \in 400..499
             /\ workflows' = workflows]_vars

-----------------------------------------------------------------------------
\* Properties of the knowledge-base store (checked under SpecKB)

\* C5: an approve (reject) call answers 200 with the number of listed items that
\* were pending, sets exactly those to approved (rejected) and leaves every other
\* item, listed or not, as it was.
C5_CountsAndSetsPendingOnly ==
    [][\A op \in {"approve", "reject"} :
         (served' # served /\ http'.op = op)
           => LET hit == {i \in Range(http'.item_ids) \cap DOMAIN kb :
                            kb[i] = "pending"}
                  to == IF op = "approve" THEN "approved" ELSE "rejected"
              IN /\ http'.code = 200
                 /\ http'.count = Cardinality(hit)
                 /\ DOMAIN kb' = DOMAIN kb
                 /\ \A i \in DOMAIN kb :
                        kb'[i] = IF i \in hit THEN to ELSE kb[i]]_vars

C5_Witness ==
    /\ http.op = "approve"
    /\ http.count = 1
    /\ Len(http.item_ids) = 2
    /\ \E i \in Range(http.item_ids) : i \in DOMAIN kb /\ kb[i] = "rejected"

\* C6: whatever the order in which approve and reject calls with overlapping id
\* lists are served, the counts they answer add up to the number of items that
\* left pending.
C6_NoDoubleCounting ==
    countSum = Cardinality(decided)

C6_Witness ==
    /\ countSum = 2
    /\ http.op = "reject"
    /\ http.count = 0
    /\ Len(http.item_ids) = 2
    /\ \A i \in Range(http.item_ids) : i \in DOMAIN kb /\ kb[i] = "approved"

\* C7: an item's status changes only from pending to approved or to rejected;
\* an item enters the store pending, under an id never used before.
C7_DecisionsAreFinal ==
    [][\A i \in ItemIds :
         /\ (i \in DOMAIN kb /\ i \in DOMAIN kb' /\ kb'[i] # kb[i])
                => (kb[i] = "pending" /\ kb'[i] \in {"approved", "rejected"})
         /\ (i \notin DOMAIN kb /\ i \in DOMAIN kb')
                => (kb'[i] = "pending" /\ i >= nextItem)]_vars

C7_Witness ==
    /\ http.op = "reject"
    /\ http.count = 0
    /\ \E i \in Range(http.item_ids) : i \in DOMAIN kb /\ kb[i] = "approved"
    /\ \E i \in ItemIds : i < nextItem /\ i \notin DOMAIN kb

-----------------------------------------------------------------------------
\* Failures and error conditions of the orchestrator (checked under Spec)

\* The failure reason a poll of GET .../status reads for w, "absent" on a 404.
PolledError(w) ==
    LET r == get_workflow_status(w) IN
    IF r.code = 200 THEN r.content.error ELSE "absent"

\* C11: a workflow enters FAILED from EXTRACTING or MATCHING with the failure
\* reason readable in its status, in a step that changes no other workflow; once
\* FAILED it stays FAILED with that reason until its record is deleted.
C11_FailureIsRecordedAndContained ==
    [][\A w \in WorkflowIds :
         /\ (PolledStatus(w) # "FAILED" /\ PolledStatus(w)' = "FAILED")
                => /\ PolledStatus(w) \in {"EXTRACTING", "MATCHING"}
                   /\ PolledError(w)' \in {"ExtractionError", "MatchingError"}
                   /\ \A v \in WorkflowIds \ {w} :
                          /\ v \in DOMAIN workflows <=> v \in DOMAIN workflows'
                          /\ v \in DOMAIN workflows => workflows'[v] = workflows[v]
         /\ (PolledStatus(w) = "FAILED")
                => \/ PolledStatus(w)' = "absent"
                   \/ /\ PolledStatus(w)' = "FAILED"
                      /\ PolledError(w)' = PolledError(w)]_vars

C11_Witness ==
    \E w, v \in DOMAIN workflows :
        /\ workflows[w].status = "FAILED"
        /\ workflows[w].error = "MatchingError"
        /\ workflows[v].status = "COMPLETED"
        /\ http.op = "update_results"
        /\ http.workflow_id = w
        /\ http.code = 500

\* C12 (the claim as stated): a delete or an updateResults addressed to an
\* unknown workflow id is answered 404, as the status and results polls of an
\* unknown id are.
C12_UnknownIdIsNotFound ==
    [][/\ \A w \in WorkflowIds \ DOMAIN workflows :
              /\ get_workflow_status(w).code = 404
              /\ get_workflow_results(w).code = 404
       /\ (/\ served' # served
           /\ http'.op \in {"delete_workflow", "update_results"}
           /\ http'.workflow_id \notin DOMAIN workflows)
              => http'.code = 404]_vars

\* C13 (the claim as stated): an upload_from_url whose download yields no file
\* is answered with the client error 400 and starts no workflow.
C13_NoFilesIsClientError ==
    [][(served' # served /\ http'.op = "upload_from_url" /\ http'.files = 0)
          => /\ http'.code = 400
             /\ workflows' = workflows
             /\ pipe' = pipe]_vars

\* C16 (the claim as stated): the workflows an upload_from_url request has
\* started are exactly the ids its response reports; an error response reports
\* none.
C16_BatchStartsWhatItReports ==
    [][(served' # served /\ http'.op = "upload_from_url")
          => /\ http'.code # 200 => http'.workflow_ids = <<>>
             /\ DOMAIN workflows' \ DOMAIN workflows = Range(http'.workflow_ids)]_vars

-----------------------------------------------------------------------------
\* Stored results, statistics and batches

\* C14: every stored match result set is owned by a workflow that exists, no
\* deleted workflow owns one, and an existing workflow owns one exactly when it is
\* in AWAITING_REVIEW or COMPLETED. (Spec)
C14_ResultsBelongToLiveWorkflows ==
    /\ resultsDir \subseteq DOMAIN workflows
    /\ resultsDir \cap deleted = {}
    /\ \A w \in DOMAIN workflows :
           w \in resultsDir <=> workflows[w].status \in ReviewStates

C14_Witness ==
    /\ \E w \in deleted : pipe[w] = "finished"
    /\ \E w \in deleted : pipe[w] = "dropped"
    /\ http.op = "delete_workflow"
    /\ http.code = 200

\* C15: whatever the search and the limit, and between any two writes to the
\* store, the stats of GET /api/knowledge-base count the stored items and the
\* items of each status, and total = pending + approved + rejected. (SpecKB)
C15_StatsDescribeTheStore ==
    \A matching \in SUBSET ItemIds, limit \in 1..MaxItems :
        LET r == get_knowledge_base(matching, limit)
            stats == r.content.stats
            n(status) == Cardinality({i \in ItemIds :
                                        i \in DOMAIN kb /\ kb[i] = status})
        IN /\ r.code = 200
           /\ stats.total = Cardinality(DOMAIN kb)
           /\ stats.pending = n("pending")
           /\ stats.approved = n("approved")
           /\ stats.rejected = n("rejected")
           /\ stats.total = stats.pending + stats.approved + stats.rejected

C15_Witness ==
    /\ http.op = "delete_item"
    /\ http.code = 200
    /\ \E i \in DOMAIN kb : kb[i] = "approved"
    /\ KnowledgeBaseService_get_stats.total = 1

\* C17: an upload_from_url answered 200 for n >= 1 files made n start_workflow
\* calls, the i-th for the i-th file with a fresh id, no item master and mode
\* kb_only; the ids are pairwise distinct, are answered in that order, and are
\* the workflows the request added, each in CREATED. (Spec)
C17_BatchStartsOnePerFile ==
    [][(served' # served /\ http'.op = "upload_from_url" /\ http'.code = 200)
          => LET n == http'.files
                 ids == http'.workflow_ids
             IN /\ n >= 1
                /\ Len(ids) = n
                /\ Len(calls') = n
                /\ \A i \in 1..n :
                       /\ calls'[i] = StartCall(i, ids[i], FALSE, "kb_only")
                       /\ ids[i] >= nextId
                       /\ ids[i] \notin DOMAIN workflows
                       /\ workflows'[ids[i]].status = "CREATED"
                       /\ workflows'[ids[i]].mode = "kb_only"
                       /\ \A j \in 1..n : i # j => ids[i] # ids[j]
                /\ DOMAIN workflows' = DOMAIN workflows \cup Range(ids)]_vars

C17_Witness ==
    /\ http.op = "upload_from_url"
    /\ http.code = 200
    /\ http.files = 2
    /\ Len(calls) = 2
    /\ Len(http.workflow_ids) = 2

-----------------------------------------------------------------------------
\* Progress of the pipelines

\* One step of the pipeline of workflow w.
Pipeline(w) ==
    \/ PipelineStart(w)
    \/ ExtractionDone(w)
    \/ ExtractionFailed(w)
    \/ MatchingDone(w)
    \/ MatchingFailed(w)

\* Every started pipeline is an independent unit of work that keeps being
\* scheduled, and each of its stages ends, in success or in failure.
Fairness == \A w \in WorkflowIds : WF_vars(Pipeline(w))

\* The orchestrator with at most MaxLiveWorkflows uuids drawn.
NextLive ==
    \/ \E im \in BOOLEAN, mode \in ComparisonModes, storable \in BOOLEAN :
           upload_documents(im, mode, storable) /\ nextId' <= MaxLiveWorkflows + 1
    \/ \E n \in 0..MaxFiles : \E fail_at \in 0..n :
           upload_from_url(n, fail_at) /\ nextId' <= MaxLiveWorkflows + 1
    \/ \E w \in WorkflowIds : delete_workflow(w)
    \/ \E w \in WorkflowIds, d \in Submissions :
           update_workflow_results(w, d.matches, d.summary)
    \/ \E w \in WorkflowIds : PipelineStart(w)
    \/ \E w \in WorkflowIds : ExtractionDone(w)
    \/ \E w \in WorkflowIds : ExtractionFailed(w)
    \/ \E w \in WorkflowIds : MatchingDone(w)
    \/ \E w \in WorkflowIds : MatchingFailed(w)

SpecFair == Init /\ [][NextLive]_vars /\ Fairness

\* C18: under SpecFair a workflow in CREATED, EXTRACTING or MATCHING is
\* eventually in AWAITING_REVIEW or FAILED, or deleted; and a workflow becomes
\* COMPLETED only in the step of an accepted updateResults addressed to it.
C18_PipelineEndsInReviewOrFailure ==
    /\ \A w \in WorkflowIds :
           (w \in DOMAIN workflows /\ workflows[w].status \in PipelineStates)
               ~> (\/ w \notin DOMAIN workflows
                   \/ workflows[w].status \in {"AWAITING_REVIEW", "FAILED"})
    /\ [][\A w \in WorkflowIds :
            (/\ w \in DOMAIN workflows'
             /\ workflows'[w].status = "COMPLETED"
             /\ ~(w \in DOMAIN workflows /\ workflows[w].status = "COMPLETED"))
                => /\ served' # served
                   /\ http'.op = "update_results"
                   /\ http'.workflow_id = w
                   /\ http'.code = 200
                   /\ w \in DOMAIN workflows
                   /\ workflows[w].status = "AWAITING_REVIEW"]_vars

C18_Witness ==
    \E w \in DOMAIN workflows :
        /\ workflows[w].status = "COMPLETED"
        /\ pipe[w] = "finished"
        /\ http.op = "update_results"
        /\ http.workflow_id = w
        /\ http.code = 200

====
